---------------------------- MODULE Spec2Model ----------------------------
(***************************************************************************)
(* The metaspace performance counters of HotSpot                           *)
(* (src/share/vm/memory/metaspaceCounters.cpp).                            *)
(*                                                                         *)
(* Two components, MetaspaceCounters and CompressedClassSpaceCounters,     *)
(* each own one static pointer to a MetaspacePerfCounters object.  The     *)
(* object registers four entries with the performance-data registry        *)
(* (PerfDataManager) and keeps the handles of the three variable ones.     *)
(* The allocator (MetaspaceAux) and the registry are collaborators: the    *)
(* model keeps the allocator's aggregates and the registry's entry list as *)
(* state, and the allocator changes its aggregates between the calls.      *)
(*                                                                         *)
(* Spec takes an operation as one atomic step: the callers serialise the    *)
(* calls, and the registry has room.  The specifications after it look at   *)
(* what Spec leaves out: an allocator that keeps its aggregates ordered, a  *)
(* registry that runs out of room, an update that runs in steps beside the  *)
(* allocator and a reader, and two threads that initialize at once.         *)
(***************************************************************************)
EXTENDS Naturals, Sequences, FiniteSets

VARIABLES
    UsePerfData,                            \* runtime/globals.hpp flag
    UseCompressedKlassPointers,             \* runtime/globals.hpp flag
    DebugBuild,                             \* TRUE: assert() is compiled in
    MetaspaceAux,                           \* the allocator's aggregates
    perf_data,                              \* the registry: the entries, in order of creation
    MetaspaceCounters_perf_counters,        \* MetaspaceCounters::_perf_counters
    CompressedClassSpaceCounters_perf_counters,
    vm,                                     \* "running", or how the VM ended
    last,                                   \* the most recent step (history)
    ret,                                    \* the most recent return value of calculate_capacity (history)
    perf_memory,                            \* the registry's create calls: how many, and which find no room
    pending_exception,                      \* Thread::_pending_exception of the calling thread
    thread,                                 \* where a call that runs in steps is, and its locals
    hist                                    \* what the steps of a call have seen (history)

vars == <<UsePerfData, UseCompressedKlassPointers, DebugBuild, MetaspaceAux,
          perf_data, MetaspaceCounters_perf_counters,
          CompressedClassSpaceCounters_perf_counters, vm, last, ret,
          perf_memory, pending_exception, thread, hist>>

-----------------------------------------------------------------------------
(* Bounds *)

\* The bytes the allocator accounts for, summed over all its aggregates.
MaxBytes == 1

-----------------------------------------------------------------------------
(* The allocator: MetaspaceAux *)

\* A pointer is the empty sequence (NULL) or the one-element sequence of the
\* object it points to.
NULL == <<>>

\* The queries without an argument report on the general region, the ones
\* with _class_type on the compressed class space.
General == "General"

_class_type == "ClassType"

Regions == {General, _class_type}

RegionFields == {"allocated_capacity_bytes", "free_bytes",
                 "free_chunks_total_in_bytes", "reserved_in_bytes",
                 "allocated_used_bytes"}

MetaspaceAux_allocated_capacity_bytes(mdtype) == MetaspaceAux.allocated_capacity_bytes[mdtype]

MetaspaceAux_free_bytes(mdtype) == MetaspaceAux.free_bytes[mdtype]

MetaspaceAux_free_chunks_total_in_bytes(mdtype) == MetaspaceAux.free_chunks_total_in_bytes[mdtype]

MetaspaceAux_reserved_in_bytes(mdtype) == MetaspaceAux.reserved_in_bytes[mdtype]

MetaspaceAux_allocated_used_bytes(mdtype) == MetaspaceAux.allocated_used_bytes[mdtype]

MetaspaceAux_min_chunk_size == MetaspaceAux.min_chunk_size

RegionTotal(aux, r) ==
    aux.allocated_capacity_bytes[r] + aux.free_bytes[r]
    + aux.free_chunks_total_in_bytes[r] + aux.reserved_in_bytes[r]
    + aux.allocated_used_bytes[r]

AuxTotal(aux) == RegionTotal(aux, General) + RegionTotal(aux, _class_type) + aux.min_chunk_size

\* Nothing accounted for yet.
NoBytes ==
    [allocated_capacity_bytes |-> [r \in Regions |-> 0],
     free_bytes |-> [r \in Regions |-> 0],
     free_chunks_total_in_bytes |-> [r \in Regions |-> 0],
     reserved_in_bytes |-> [r \in Regions |-> 0],
     allocated_used_bytes |-> [r \in Regions |-> 0],
     min_chunk_size |-> 0]

-----------------------------------------------------------------------------
(* The registry: PerfDataManager, PerfVariable *)

SUN_GC == "sun.gc"

PerfDataManager_counter_name(ns, name) == ns \o "." \o name

\* A new entry is appended to the list of all entries; its handle is its place.
PerfDataManager_create_constant(all, ns, path, units, value) ==
    Append(all, [name |-> PerfDataManager_counter_name(ns, path), units |-> units,
                 variability |-> "Constant", value |-> value])

PerfDataManager_create_variable(all, ns, path, units, value) ==
    Append(all, [name |-> PerfDataManager_counter_name(ns, path), units |-> units,
                 variability |-> "Variable", value |-> value])

PerfVariable_set_value(all, handle, value) == [all EXCEPT ![handle].value = value]

\* No handle: what a variable that holds no entry holds.
NoHandle == 0

\* The registry has room for every entry: no create call fails.
NoExhaustion == [calls |-> 0, failing |-> {}]

-----------------------------------------------------------------------------
(* class MetaspacePerfCounters *)

MetaspacePerfCounters_create_variable(all, ns, name, value) ==
    PerfDataManager_create_variable(all, SUN_GC, PerfDataManager_counter_name(ns, name),
                                    "U_Bytes", value)

MetaspacePerfCounters_create_constant(all, ns, name, value) ==
    PerfDataManager_create_constant(all, SUN_GC, PerfDataManager_counter_name(ns, name),
                                    "U_Bytes", value)

\* A constructor whose objects all keep the handles of the first counter set.
MetaspacePerfCounters_new_shared_handles(all, ns, min_capacity, curr_capacity, max_capacity, used) ==
    LET a1 == MetaspacePerfCounters_create_constant(all, ns, "minCapacity", min_capacity)
        a2 == MetaspacePerfCounters_create_variable(a1, ns, "capacity", curr_capacity)
        a3 == MetaspacePerfCounters_create_variable(a2, ns, "maxCapacity", max_capacity)
        a4 == MetaspacePerfCounters_create_variable(a3, ns, "used", used)
    IN  [all |-> a4, object |-> [_capacity |-> 2, _max_capacity |-> 3, _used |-> 4]]

\* A constructor that keeps the handle of minCapacity as the handle of capacity.
MetaspacePerfCounters_new_wrong_handle(all, ns, min_capacity, curr_capacity, max_capacity, used) ==
    LET a1 == MetaspacePerfCounters_create_constant(all, ns, "minCapacity", min_capacity)
        a2 == MetaspacePerfCounters_create_variable(a1, ns, "capacity", curr_capacity)
        a3 == MetaspacePerfCounters_create_variable(a2, ns, "maxCapacity", max_capacity)
        a4 == MetaspacePerfCounters_create_variable(a3, ns, "used", used)
    IN  [all |-> a4,
         object |-> [_capacity |-> Len(a1), _max_capacity |-> Len(a3), _used |-> Len(a4)]]

\* A constructor that registers used under maxCapacity and maxCapacity under used.
MetaspacePerfCounters_new_swapped(all, ns, min_capacity, curr_capacity, max_capacity, used) ==
    LET a1 == MetaspacePerfCounters_create_constant(all, ns, "minCapacity", min_capacity)
        a2 == MetaspacePerfCounters_create_variable(a1, ns, "capacity", curr_capacity)
        a3 == MetaspacePerfCounters_create_variable(a2, ns, "maxCapacity", used)
        a4 == MetaspacePerfCounters_create_variable(a3, ns, "used", max_capacity)
    IN  [all |-> a4,
         object |-> [_capacity |-> Len(a2), _max_capacity |-> Len(a3), _used |-> Len(a4)]]

\* The constructor: the registry after the four registrations, and the object.
MetaspacePerfCounters_new(all, ns, min_capacity, curr_capacity, max_capacity, used) ==
    LET a1 == MetaspacePerfCounters_create_constant(all, ns, "minCapacity", min_capacity)
        a2 == MetaspacePerfCounters_create_variable(a1, ns, "capacity", curr_capacity)
        a3 == MetaspacePerfCounters_create_variable(a2, ns, "maxCapacity", max_capacity)
        a4 == MetaspacePerfCounters_create_variable(a3, ns, "used", used)
    IN  [all |-> a4,
         object |-> [_capacity |-> Len(a2), _max_capacity |-> Len(a3), _used |-> Len(a4)]]

\* An update that adds to the counters instead of overwriting them.
MetaspacePerfCounters_update_accumulating(all, this, capacity, max_capacity, used) ==
    LET a1 == PerfVariable_set_value(all, this._capacity, all[this._capacity].value + capacity)
        a2 == PerfVariable_set_value(a1, this._max_capacity,
                                     all[this._max_capacity].value + max_capacity)
    IN  PerfVariable_set_value(a2, this._used, all[this._used].value + used)

\* An update that clamps used to the capacity.
MetaspacePerfCounters_update_clamped(all, this, capacity, max_capacity, used) ==
    LET a1 == PerfVariable_set_value(all, this._capacity, capacity)
        a2 == PerfVariable_set_value(a1, this._max_capacity, max_capacity)
    IN  PerfVariable_set_value(a2, this._used, IF used > capacity THEN capacity ELSE used)

MetaspacePerfCounters_update(all, this, capacity, max_capacity, used) ==
    LET a1 == PerfVariable_set_value(all, this._capacity, capacity)
        a2 == PerfVariable_set_value(a1, this._max_capacity, max_capacity)
    IN  PerfVariable_set_value(a2, this._used, used)

-----------------------------------------------------------------------------
(* assert(): fatal in a debug build, compiled out of a product build *)

assert_fires(p) == DebugBuild /\ ~p

Step(op, who, again) == [op |-> op, who |-> who, again |-> again]

Running == vm = "running"

-----------------------------------------------------------------------------
(* MetaspaceCounters *)

\* A capacity that leaves out the free bytes of the current chunks.
MetaspaceCounters_calculate_capacity_without_free_bytes ==
    MetaspaceAux_allocated_capacity_bytes(General)
    + MetaspaceAux_free_chunks_total_in_bytes(General)

MetaspaceCounters_calculate_capacity ==
    MetaspaceAux_allocated_capacity_bytes(General)
    + MetaspaceAux_free_bytes(General) + MetaspaceAux_free_chunks_total_in_bytes(General)

\* An initialize that does not look at the flag.
MetaspaceCounters_initialize_always == TRUE

\* if (UsePerfData)
MetaspaceCounters_initialize_enabled == UsePerfData

\* No check of the pointer before the counter set is created.
MetaspaceCounters_initialize_unchecked == TRUE

\* assert(_perf_counters == NULL, "Should only be initialized once")
MetaspaceCounters_initialize_precondition == MetaspaceCounters_perf_counters = NULL

MetaspaceCounters_initialize_performance_counters ==
    /\ Running
    /\ last' = Step("initialize", "MetaspaceCounters", FALSE)
    /\ IF MetaspaceCounters_initialize_enabled
       THEN IF assert_fires(MetaspaceCounters_initialize_precondition)
            THEN /\ vm' = "fatal"
                 /\ UNCHANGED <<perf_data, MetaspaceCounters_perf_counters>>
            ELSE LET min_capacity == MetaspaceAux_min_chunk_size
                     capacity == MetaspaceCounters_calculate_capacity
                     max_capacity == MetaspaceAux_reserved_in_bytes(General)
                     used == MetaspaceAux_allocated_used_bytes(General)
                     new == MetaspacePerfCounters_new(perf_data, "metaspace", min_capacity,
                                                      capacity, max_capacity, used)
                 IN  /\ perf_data' = new.all
                     /\ MetaspaceCounters_perf_counters' = <<new.object>>
                     \* a product build that initializes twice is followed no further
                     /\ vm' = IF MetaspaceCounters_perf_counters = NULL
                              THEN "running" ELSE "undefined"
       ELSE UNCHANGED <<perf_data, MetaspaceCounters_perf_counters, vm>>
    /\ UNCHANGED <<perf_memory, pending_exception, thread, hist>>
    /\ UNCHANGED <<UsePerfData, UseCompressedKlassPointers, DebugBuild, MetaspaceAux,
                   CompressedClassSpaceCounters_perf_counters, ret>>

\* if (UsePerfData)
MetaspaceCounters_update_enabled == UsePerfData

\* assert(_perf_counters != NULL, "Should be initialized")
MetaspaceCounters_update_precondition == MetaspaceCounters_perf_counters # NULL

MetaspaceCounters_update_performance_counters ==
    /\ Running
    /\ last' = Step("update", "MetaspaceCounters",
                    last.op = "update" /\ last.who = "MetaspaceCounters")
    /\ IF MetaspaceCounters_update_enabled
       THEN IF assert_fires(MetaspaceCounters_update_precondition)
            THEN /\ vm' = "fatal"
                 /\ UNCHANGED perf_data
            ELSE IF MetaspaceCounters_perf_counters = NULL
                 \* a product build calls update() on a null pointer: undefined
                 \* behaviour, a crash on the load or a run that goes on
                 THEN /\ vm' \in {"crashed", "undefined"}
                      /\ UNCHANGED perf_data
                 ELSE LET capacity == MetaspaceCounters_calculate_capacity
                          max_capacity == MetaspaceAux_reserved_in_bytes(General)
                          used == MetaspaceAux_allocated_used_bytes(General)
                      IN  /\ perf_data' = MetaspacePerfCounters_update(
                                              perf_data, MetaspaceCounters_perf_counters[1],
                                              capacity, max_capacity, used)
                          /\ vm' = vm
       ELSE UNCHANGED <<perf_data, vm>>
    /\ UNCHANGED <<perf_memory, pending_exception, thread, hist>>
    /\ UNCHANGED <<UsePerfData, UseCompressedKlassPointers, DebugBuild, MetaspaceAux,
                   MetaspaceCounters_perf_counters,
                   CompressedClassSpaceCounters_perf_counters, ret>>

-----------------------------------------------------------------------------
(* CompressedClassSpaceCounters *)

\* The sum of the general region, the argument left out.
CompressedClassSpaceCounters_calculate_capacity_general ==
    MetaspaceAux_allocated_capacity_bytes(General)
    + MetaspaceAux_free_bytes(General)
    + MetaspaceAux_free_chunks_total_in_bytes(General)

CompressedClassSpaceCounters_calculate_capacity ==
    MetaspaceAux_allocated_capacity_bytes(_class_type)
    + MetaspaceAux_free_bytes(_class_type)
    + MetaspaceAux_free_chunks_total_in_bytes(_class_type)

\* The gate of the general component, without UseCompressedKlassPointers.
CompressedClassSpaceCounters_update_ungated == UsePerfData

\* if (UsePerfData && UseCompressedKlassPointers)
CompressedClassSpaceCounters_update_enabled == UsePerfData /\ UseCompressedKlassPointers

\* No check of the pointer before it is used.
CompressedClassSpaceCounters_update_unchecked == TRUE

\* assert(_perf_counters != NULL, "Should be initialized")
CompressedClassSpaceCounters_update_precondition ==
    CompressedClassSpaceCounters_perf_counters # NULL

CompressedClassSpaceCounters_update_performance_counters ==
    /\ Running
    /\ last' = Step("update", "CompressedClassSpaceCounters",
                    last.op = "update" /\ last.who = "CompressedClassSpaceCounters")
    /\ IF CompressedClassSpaceCounters_update_enabled
       THEN IF assert_fires(CompressedClassSpaceCounters_update_precondition)
            THEN /\ vm' = "fatal"
                 /\ UNCHANGED perf_data
            ELSE IF CompressedClassSpaceCounters_perf_counters = NULL
                 THEN /\ vm' \in {"crashed", "undefined"}
                      /\ UNCHANGED perf_data
                 ELSE LET capacity == CompressedClassSpaceCounters_calculate_capacity
                          max_capacity == MetaspaceAux_reserved_in_bytes(_class_type)
                          used == MetaspaceAux_allocated_used_bytes(_class_type)
                      IN  /\ perf_data' = MetaspacePerfCounters_update(
                                              perf_data,
                                              CompressedClassSpaceCounters_perf_counters[1],
                                              capacity, max_capacity, used)
                          /\ vm' = vm
       ELSE UNCHANGED <<perf_data, vm>>
    /\ UNCHANGED <<perf_memory, pending_exception, thread, hist>>
    /\ UNCHANGED <<UsePerfData, UseCompressedKlassPointers, DebugBuild, MetaspaceAux,
                   MetaspaceCounters_perf_counters,
                   CompressedClassSpaceCounters_perf_counters, ret>>

\* if (UsePerfData)
CompressedClassSpaceCounters_initialize_enabled == UsePerfData

\* assert(_perf_counters == NULL, "Should only be initialized once")
CompressedClassSpaceCounters_initialize_precondition ==
    CompressedClassSpaceCounters_perf_counters = NULL

\* With compressed class pointers off, no counter set is registered.
CompressedClassSpaceCounters_new_counters_only_if_used ==
    LET ns == "compressedclassspace"
    IN  IF UseCompressedKlassPointers
        THEN MetaspacePerfCounters_new(perf_data, ns, MetaspaceAux_min_chunk_size,
                                       CompressedClassSpaceCounters_calculate_capacity,
                                       MetaspaceAux_reserved_in_bytes(_class_type),
                                       MetaspaceAux_allocated_used_bytes(_class_type))
        ELSE [all |-> perf_data,
              object |-> [_capacity |-> 0, _max_capacity |-> 0, _used |-> 0]]

\* The counter set of either branch: the registry after the constructor, and
\* the object.
CompressedClassSpaceCounters_new_counters ==
    LET ns == "compressedclassspace"
    IN  IF UseCompressedKlassPointers
        THEN LET min_capacity == MetaspaceAux_min_chunk_size
                 capacity == CompressedClassSpaceCounters_calculate_capacity
                 max_capacity == MetaspaceAux_reserved_in_bytes(_class_type)
                 used == MetaspaceAux_allocated_used_bytes(_class_type)
             IN  MetaspacePerfCounters_new(perf_data, ns, min_capacity, capacity,
                                           max_capacity, used)
        ELSE MetaspacePerfCounters_new(perf_data, ns, 0, 0, 0, 0)

CompressedClassSpaceCounters_initialize_performance_counters ==
    /\ Running
    /\ last' = Step("initialize", "CompressedClassSpaceCounters", FALSE)
    /\ IF CompressedClassSpaceCounters_initialize_enabled
       THEN IF assert_fires(CompressedClassSpaceCounters_initialize_precondition)
            THEN /\ vm' = "fatal"
                 /\ UNCHANGED <<perf_data, CompressedClassSpaceCounters_perf_counters>>
            ELSE LET new == CompressedClassSpaceCounters_new_counters
                 IN  /\ perf_data' = new.all
                     /\ CompressedClassSpaceCounters_perf_counters' = <<new.object>>
                     \* a product build that initializes twice is followed no further
                     /\ vm' = IF CompressedClassSpaceCounters_perf_counters = NULL
                              THEN "running" ELSE "undefined"
       ELSE UNCHANGED <<perf_data, CompressedClassSpaceCounters_perf_counters, vm>>
    /\ UNCHANGED <<perf_memory, pending_exception, thread, hist>>
    /\ UNCHANGED <<UsePerfData, UseCompressedKlassPointers, DebugBuild, MetaspaceAux,
                   MetaspaceCounters_perf_counters, ret>>

-----------------------------------------------------------------------------
(* The allocator changes one of its aggregates *)

\* The aggregates stay within the bound.  They are byte counts of parts of one
\* address space, so the size_t sums of the code do not wrap.
WithinBounds(aux) == AuxTotal(aux) <= MaxBytes

AllocatorChange ==
    /\ Running
    /\ \/ \E f \in RegionFields, r \in Regions, v \in 0..MaxBytes :
             LET aux == [MetaspaceAux EXCEPT ![f][r] = v]
             IN  aux # MetaspaceAux /\ WithinBounds(aux) /\ MetaspaceAux' = aux
       \/ \E v \in 0..MaxBytes :
             LET aux == [MetaspaceAux EXCEPT !.min_chunk_size = v]
             IN  aux # MetaspaceAux /\ WithinBounds(aux) /\ MetaspaceAux' = aux
    /\ last' = Step("allocator", "MetaspaceAux", FALSE)
    /\ UNCHANGED <<perf_memory, pending_exception, thread, hist>>
    /\ UNCHANGED <<UsePerfData, UseCompressedKlassPointers, DebugBuild, perf_data,
                   MetaspaceCounters_perf_counters,
                   CompressedClassSpaceCounters_perf_counters, vm, ret>>

-----------------------------------------------------------------------------
(* The specification *)

Init ==
    /\ UsePerfData \in BOOLEAN
    /\ UseCompressedKlassPointers \in BOOLEAN
    /\ DebugBuild \in BOOLEAN
    /\ MetaspaceAux = NoBytes
    /\ perf_data = <<>>
    /\ MetaspaceCounters_perf_counters = NULL
    /\ CompressedClassSpaceCounters_perf_counters = NULL
    /\ vm = "running"
    /\ last = Step("none", "none", FALSE)
    /\ ret = NULL
    /\ perf_memory = NoExhaustion
    /\ pending_exception = FALSE
    /\ thread = <<>>
    /\ hist = <<>>

Next ==
    \/ MetaspaceCounters_initialize_performance_counters
    \/ MetaspaceCounters_update_performance_counters
    \/ CompressedClassSpaceCounters_initialize_performance_counters
    \/ CompressedClassSpaceCounters_update_performance_counters
    \/ AllocatorChange

Spec == Init /\ [][Next]_vars

-----------------------------------------------------------------------------
(* calculate_capacity() as a function of the allocator's state: every state *)
(* of the three capacity terms of both regions, and a call of either        *)
(* function, whose return value is kept in ret.                             *)

MetaspaceCounters_calculate_capacity_call ==
    /\ ret' = <<[who |-> "MetaspaceCounters",
                 value |-> MetaspaceCounters_calculate_capacity]>>
    /\ last' = Step("calculate_capacity", "MetaspaceCounters", FALSE)
    /\ UNCHANGED <<perf_memory, pending_exception, thread, hist>>
    /\ UNCHANGED <<UsePerfData, UseCompressedKlassPointers, DebugBuild, MetaspaceAux,
                   perf_data, MetaspaceCounters_perf_counters,
                   CompressedClassSpaceCounters_perf_counters, vm>>

CompressedClassSpaceCounters_calculate_capacity_call ==
    /\ ret' = <<[who |-> "CompressedClassSpaceCounters",
                 value |-> CompressedClassSpaceCounters_calculate_capacity]>>
    /\ last' = Step("calculate_capacity", "CompressedClassSpaceCounters", FALSE)
    /\ UNCHANGED <<perf_memory, pending_exception, thread, hist>>
    /\ UNCHANGED <<UsePerfData, UseCompressedKlassPointers, DebugBuild, MetaspaceAux,
                   perf_data, MetaspaceCounters_perf_counters,
                   CompressedClassSpaceCounters_perf_counters, vm>>

InitCapacity ==
    /\ UsePerfData \in BOOLEAN
    /\ UseCompressedKlassPointers \in BOOLEAN
    /\ DebugBuild \in BOOLEAN
    /\ \E a \in [Regions -> 0..MaxBytes], f \in [Regions -> 0..MaxBytes],
          c \in [Regions -> 0..MaxBytes] :
          MetaspaceAux = [NoBytes EXCEPT !.allocated_capacity_bytes = a,
                                         !.free_bytes = f,
                                         !.free_chunks_total_in_bytes = c]
    /\ perf_data = <<>>
    /\ MetaspaceCounters_perf_counters = NULL
    /\ CompressedClassSpaceCounters_perf_counters = NULL
    /\ vm = "running"
    /\ last = Step("none", "none", FALSE)
    /\ ret = NULL
    /\ perf_memory = NoExhaustion
    /\ pending_exception = FALSE
    /\ thread = <<>>
    /\ hist = <<>>

NextCapacity ==
    \/ MetaspaceCounters_calculate_capacity_call
    \/ CompressedClassSpaceCounters_calculate_capacity_call

SpecCapacity == InitCapacity /\ [][NextCapacity]_vars

-----------------------------------------------------------------------------
(* The components, by name *)

Components == {"MetaspaceCounters", "CompressedClassSpaceCounters"}

\* The static pointer of a component.
PointerOf(who) ==
    IF who = "MetaspaceCounters" THEN MetaspaceCounters_perf_counters
    ELSE CompressedClassSpaceCounters_perf_counters

NamespaceOf(who) == IF who = "MetaspaceCounters" THEN "metaspace" ELSE "compressedclassspace"

-----------------------------------------------------------------------------
(* The allocator keeps its aggregates ordered *)

\* What is in use lies within what is allocated or free, and that within what
\* is reserved.
Ordered(aux, r) ==
    /\ aux.allocated_used_bytes[r] <=
         aux.allocated_capacity_bytes[r] + aux.free_bytes[r] + aux.free_chunks_total_in_bytes[r]
    /\ aux.allocated_capacity_bytes[r] + aux.free_bytes[r] + aux.free_chunks_total_in_bytes[r] <=
         aux.reserved_in_bytes[r]

\* The reserved bytes of the regions stay within the bound, and with them
\* every other aggregate of an ordered allocator.
WithinBoundsOrdered(aux) ==
    /\ \A r \in Regions : Ordered(aux, r)
    /\ aux.reserved_in_bytes[General] + aux.reserved_in_bytes[_class_type]
         + aux.min_chunk_size <= MaxBytes

AllocatorChangeOrdered ==
    /\ Running
    /\ \/ \E f \in RegionFields, r \in Regions, v \in 0..MaxBytes :
             LET aux == [MetaspaceAux EXCEPT ![f][r] = v]
             IN  aux # MetaspaceAux /\ WithinBoundsOrdered(aux) /\ MetaspaceAux' = aux
       \/ \E v \in 0..MaxBytes :
             LET aux == [MetaspaceAux EXCEPT !.min_chunk_size = v]
             IN  aux # MetaspaceAux /\ WithinBoundsOrdered(aux) /\ MetaspaceAux' = aux
    /\ last' = Step("allocator", "MetaspaceAux", FALSE)
    /\ UNCHANGED <<perf_memory, pending_exception, thread, hist>>
    /\ UNCHANGED <<UsePerfData, UseCompressedKlassPointers, DebugBuild, perf_data,
                   MetaspaceCounters_perf_counters,
                   CompressedClassSpaceCounters_perf_counters, vm, ret>>

NextOrdered ==
    \/ MetaspaceCounters_initialize_performance_counters
    \/ MetaspaceCounters_update_performance_counters
    \/ CompressedClassSpaceCounters_initialize_performance_counters
    \/ CompressedClassSpaceCounters_update_performance_counters
    \/ AllocatorChangeOrdered

SpecOrdered == Init /\ [][NextOrdered]_vars

-----------------------------------------------------------------------------
(* One update call of MetaspaceCounters, read by read, beside the allocator *)

\* The thread makes one call.  The allocator is not held while the call runs:
\* it changes its aggregates between any two reads.  The three terms of
\* calculate_capacity are operands of one sum, which the compiler may evaluate
\* in any order.

CapacityTerms == {"allocated_capacity_bytes", "free_bytes", "free_chunks_total_in_bytes"}

\* The three-term capacity sum of a region in an allocator state.
ThreeTermSum(aux, r) ==
    aux.allocated_capacity_bytes[r] + aux.free_bytes[r] + aux.free_chunks_total_in_bytes[r]

Idle == [pc |-> "idle"]

Returned == [pc |-> "returned"]

\* History of a call: the three-term sums of the allocator states there have
\* been since the call began, and what allocated_used_bytes was when the call
\* read reserved_in_bytes.
NoHistory == [sums |-> {}, used_then |-> 0]

\* A total that leaves out the free bytes of the current chunks.
MetaspaceCounters_total_capacity_without_free_bytes(read) ==
    read["allocated_capacity_bytes"] + read["free_chunks_total_in_bytes"]

\* size_t total_capacity = ... + ... + ...
MetaspaceCounters_total_capacity(read) ==
    read["allocated_capacity_bytes"] + read["free_bytes"] + read["free_chunks_total_in_bytes"]

InitSampling ==
    /\ UsePerfData = TRUE
    /\ UseCompressedKlassPointers \in BOOLEAN
    /\ DebugBuild \in BOOLEAN
    /\ MetaspaceAux = NoBytes
    \* initialize_performance_counters() has run
    /\ LET new == MetaspacePerfCounters_new(<<>>, "metaspace", NoBytes.min_chunk_size, 0, 0, 0)
       IN  /\ perf_data = new.all
           /\ MetaspaceCounters_perf_counters = <<new.object>>
    /\ CompressedClassSpaceCounters_perf_counters = NULL
    /\ vm = "running"
    /\ last = Step("initialize", "MetaspaceCounters", FALSE)
    /\ ret = NULL
    /\ perf_memory = NoExhaustion
    /\ pending_exception = FALSE
    /\ thread = Idle
    /\ hist = NoHistory

\* if (UsePerfData) { assert(_perf_counters != NULL, ...);
MetaspaceCounters_update_enter ==
    /\ Running
    /\ thread = Idle
    /\ last' = Step("enter", "MetaspaceCounters", FALSE)
    /\ IF MetaspaceCounters_update_enabled
       THEN IF assert_fires(MetaspaceCounters_update_precondition)
            THEN vm' = "fatal" /\ UNCHANGED <<thread, hist>>
            ELSE IF MetaspaceCounters_perf_counters = NULL
            THEN vm' \in {"crashed", "undefined"} /\ UNCHANGED <<thread, hist>>
            ELSE /\ thread' = [pc |-> "calculate_capacity", unread |-> CapacityTerms,
                               read |-> [t \in CapacityTerms |-> 0],
                               max_capacity |-> 0, used |-> 0]
                 /\ hist' = [NoHistory EXCEPT !.sums = {MetaspaceCounters_calculate_capacity}]
                 /\ UNCHANGED vm
       ELSE thread' = Returned /\ UNCHANGED <<vm, hist>>
    /\ UNCHANGED <<perf_memory, pending_exception>>
    /\ UNCHANGED <<UsePerfData, UseCompressedKlassPointers, DebugBuild, MetaspaceAux, perf_data,
                   MetaspaceCounters_perf_counters,
                   CompressedClassSpaceCounters_perf_counters, ret>>

\* One of the three reads of calculate_capacity.
MetaspaceCounters_calculate_capacity_read ==
    /\ Running
    /\ thread.pc = "calculate_capacity"
    /\ \E t \in thread.unread :
          thread' = [thread EXCEPT !.unread = @ \ {t},
                                   !.read[t] = MetaspaceAux[t][General],
                                   !.pc = IF thread.unread = {t} THEN "max_capacity" ELSE @]
    /\ last' = Step("read", "MetaspaceCounters", FALSE)
    /\ UNCHANGED <<perf_memory, pending_exception, hist>>
    /\ UNCHANGED <<UsePerfData, UseCompressedKlassPointers, DebugBuild, MetaspaceAux, perf_data,
                   MetaspaceCounters_perf_counters,
                   CompressedClassSpaceCounters_perf_counters, vm, ret>>

\* size_t max_capacity = MetaspaceAux::reserved_in_bytes();
MetaspaceCounters_update_read_max_capacity ==
    /\ Running
    /\ thread.pc = "max_capacity"
    /\ thread' = [thread EXCEPT !.max_capacity = MetaspaceAux_reserved_in_bytes(General),
                                !.pc = "used"]
    /\ hist' = [hist EXCEPT !.used_then = MetaspaceAux_allocated_used_bytes(General)]
    /\ last' = Step("read", "MetaspaceCounters", FALSE)
    /\ UNCHANGED <<perf_memory, pending_exception>>
    /\ UNCHANGED <<UsePerfData, UseCompressedKlassPointers, DebugBuild, MetaspaceAux, perf_data,
                   MetaspaceCounters_perf_counters,
                   CompressedClassSpaceCounters_perf_counters, vm, ret>>

\* size_t used = MetaspaceAux::allocated_used_bytes();
MetaspaceCounters_update_read_used ==
    /\ Running
    /\ thread.pc = "used"
    /\ thread' = [thread EXCEPT !.used = MetaspaceAux_allocated_used_bytes(General),
                                !.pc = "update"]
    /\ last' = Step("read", "MetaspaceCounters", FALSE)
    /\ UNCHANGED <<perf_memory, pending_exception, hist>>
    /\ UNCHANGED <<UsePerfData, UseCompressedKlassPointers, DebugBuild, MetaspaceAux, perf_data,
                   MetaspaceCounters_perf_counters,
                   CompressedClassSpaceCounters_perf_counters, vm, ret>>

\* _perf_counters->update(capacity, max_capacity, used); } and the return
MetaspaceCounters_update_publish ==
    /\ Running
    /\ thread.pc = "update"
    /\ perf_data' = MetaspacePerfCounters_update(perf_data, MetaspaceCounters_perf_counters[1],
                                                 MetaspaceCounters_total_capacity(thread.read),
                                                 thread.max_capacity, thread.used)
    /\ thread' = [thread EXCEPT !.pc = "returned"]
    /\ last' = Step("update", "MetaspaceCounters", FALSE)
    /\ UNCHANGED <<perf_memory, pending_exception, hist>>
    /\ UNCHANGED <<UsePerfData, UseCompressedKlassPointers, DebugBuild, MetaspaceAux,
                   MetaspaceCounters_perf_counters,
                   CompressedClassSpaceCounters_perf_counters, vm, ret>>

\* The allocator changes an aggregate of the General region, also while the
\* call runs.
AllocatorChangeSampled ==
    /\ Running
    /\ \E f \in RegionFields, v \in 0..MaxBytes :
          LET aux == [MetaspaceAux EXCEPT ![f][General] = v]
          IN  /\ aux # MetaspaceAux /\ WithinBounds(aux) /\ MetaspaceAux' = aux
              /\ hist' = IF thread.pc \in {"idle", "returned"} THEN hist
                         ELSE [hist EXCEPT !.sums = @ \cup {ThreeTermSum(aux, General)}]
    /\ last' = Step("allocator", "MetaspaceAux", FALSE)
    /\ UNCHANGED <<perf_memory, pending_exception, thread>>
    /\ UNCHANGED <<UsePerfData, UseCompressedKlassPointers, DebugBuild, perf_data,
                   MetaspaceCounters_perf_counters,
                   CompressedClassSpaceCounters_perf_counters, vm, ret>>

NextSampling ==
    \/ MetaspaceCounters_update_enter
    \/ MetaspaceCounters_calculate_capacity_read
    \/ MetaspaceCounters_update_read_max_capacity
    \/ MetaspaceCounters_update_read_used
    \/ MetaspaceCounters_update_publish
    \/ AllocatorChangeSampled

SpecSampling == InitSampling /\ [][NextSampling]_vars

-----------------------------------------------------------------------------
(* MetaspacePerfCounters::update, write by write, beside a reader *)

\* The calls of update_performance_counters() follow one another; each reads
\* the allocator at once and then makes the three set_value calls of
\* MetaspacePerfCounters::update one by one.  A reader of the registry reads
\* the three counters at any moment.

\* An update that writes used first and capacity last.
MetaspacePerfCounters_update_order_reversed == <<"_used", "_max_capacity", "_capacity">>

\* _capacity->set_value(capacity); _max_capacity->set_value(max_capacity);
\* _used->set_value(used);
MetaspacePerfCounters_update_order == <<"_capacity", "_max_capacity", "_used">>

\* The argument of update that is written through a handle.
MetaspacePerfCounters_update_argument(call, handle) ==
    IF handle = "_capacity" THEN call.capacity
    ELSE IF handle = "_max_capacity" THEN call.max_capacity
    ELSE call.used

\* What a reader of the registry finds under the three names of a namespace.
ReaderSnapshot(all, ns) ==
    LET value(metric) ==
          all[CHOOSE i \in DOMAIN all : all[i].name = "sun.gc." \o ns \o "." \o metric].value
    IN  <<value("capacity"), value("maxCapacity"), value("used")>>

\* History: what the registry held when the call began, and what the reader
\* has found since.
NothingRead == [before |-> <<0, 0, 0>>, reader |-> NULL]

InitPublishing ==
    /\ UsePerfData = TRUE
    /\ UseCompressedKlassPointers \in BOOLEAN
    /\ DebugBuild \in BOOLEAN
    /\ MetaspaceAux = NoBytes
    \* initialize_performance_counters() has run
    /\ LET new == MetaspacePerfCounters_new(<<>>, "metaspace", NoBytes.min_chunk_size, 0, 0, 0)
       IN  /\ perf_data = new.all
           /\ MetaspaceCounters_perf_counters = <<new.object>>
    /\ CompressedClassSpaceCounters_perf_counters = NULL
    /\ vm = "running"
    /\ last = Step("initialize", "MetaspaceCounters", FALSE)
    /\ ret = NULL
    /\ perf_memory = NoExhaustion
    /\ pending_exception = FALSE
    /\ thread = Idle
    /\ hist = NothingRead

\* update_performance_counters() up to the call of update
MetaspaceCounters_update_call ==
    /\ Running
    /\ thread.pc \in {"idle", "returned"}
    /\ last' = Step("enter", "MetaspaceCounters", FALSE)
    /\ IF MetaspaceCounters_update_enabled
       THEN IF assert_fires(MetaspaceCounters_update_precondition)
            THEN vm' = "fatal" /\ UNCHANGED <<thread, hist>>
            ELSE IF MetaspaceCounters_perf_counters = NULL
            THEN vm' \in {"crashed", "undefined"} /\ UNCHANGED <<thread, hist>>
            ELSE /\ thread' = [pc |-> "update", next |-> 1,
                               capacity |-> MetaspaceCounters_calculate_capacity,
                               max_capacity |-> MetaspaceAux_reserved_in_bytes(General),
                               used |-> MetaspaceAux_allocated_used_bytes(General)]
                 /\ hist' = [before |-> ReaderSnapshot(perf_data, "metaspace"), reader |-> NULL]
                 /\ UNCHANGED vm
       ELSE thread' = Returned /\ UNCHANGED <<vm, hist>>
    /\ UNCHANGED <<perf_memory, pending_exception>>
    /\ UNCHANGED <<UsePerfData, UseCompressedKlassPointers, DebugBuild, MetaspaceAux, perf_data,
                   MetaspaceCounters_perf_counters,
                   CompressedClassSpaceCounters_perf_counters, ret>>

\* One set_value call of update; after the third, update and its caller return.
MetaspacePerfCounters_update_set_value ==
    /\ Running
    /\ thread.pc = "update"
    /\ LET handle == MetaspacePerfCounters_update_order[thread.next]
           this == MetaspaceCounters_perf_counters[1]
       IN  perf_data' = PerfVariable_set_value(perf_data, this[handle],
                                               MetaspacePerfCounters_update_argument(thread, handle))
    /\ thread' = IF thread.next = Len(MetaspacePerfCounters_update_order)
                 THEN [thread EXCEPT !.pc = "returned"]
                 ELSE [thread EXCEPT !.next = @ + 1]
    /\ last' = IF thread.next = Len(MetaspacePerfCounters_update_order)
               THEN Step("update", "MetaspaceCounters", FALSE)
               ELSE Step("write", "MetaspaceCounters", FALSE)
    /\ UNCHANGED <<perf_memory, pending_exception, hist>>
    /\ UNCHANGED <<UsePerfData, UseCompressedKlassPointers, DebugBuild, MetaspaceAux,
                   MetaspaceCounters_perf_counters,
                   CompressedClassSpaceCounters_perf_counters, vm, ret>>

\* A reader of the registry reads the three counters.
RegistryReader ==
    /\ Running
    /\ hist' = [hist EXCEPT !.reader = ReaderSnapshot(perf_data, "metaspace")]
    /\ hist' # hist
    /\ last' = Step("reader", "reader", FALSE)
    /\ UNCHANGED <<perf_memory, pending_exception, thread>>
    /\ UNCHANGED <<UsePerfData, UseCompressedKlassPointers, DebugBuild, MetaspaceAux, perf_data,
                   MetaspaceCounters_perf_counters,
                   CompressedClassSpaceCounters_perf_counters, vm, ret>>

\* The allocator changes an aggregate of the General region.
AllocatorChangeGeneral ==
    /\ Running
    /\ \E f \in RegionFields, v \in 0..MaxBytes :
          LET aux == [MetaspaceAux EXCEPT ![f][General] = v]
          IN  aux # MetaspaceAux /\ WithinBounds(aux) /\ MetaspaceAux' = aux
    /\ last' = Step("allocator", "MetaspaceAux", FALSE)
    /\ UNCHANGED <<perf_memory, pending_exception, thread, hist>>
    /\ UNCHANGED <<UsePerfData, UseCompressedKlassPointers, DebugBuild, perf_data,
                   MetaspaceCounters_perf_counters,
                   CompressedClassSpaceCounters_perf_counters, vm, ret>>

NextPublishing ==
    \/ MetaspaceCounters_update_call
    \/ MetaspacePerfCounters_update_set_value
    \/ RegistryReader
    \/ AllocatorChangeGeneral

SpecPublishing == InitPublishing /\ [][NextPublishing]_vars

-----------------------------------------------------------------------------
(* Threads that call initialize_performance_counters() of one component at once *)

\* Nothing serializes the threads: a step of one thread is the check, one
\* create call of the constructor, or the assignment of the pointer, and the
\* steps of the threads interleave.  The registry makes each create call as
\* one step.

MaxThreads == 2

Threads == 1..MaxThreads

NoObject == [_capacity |-> NoHandle, _max_capacity |-> NoHandle, _used |-> NoHandle]

\* if (UsePerfData)
initialize_enabled(who) ==
    IF who = "MetaspaceCounters" THEN MetaspaceCounters_initialize_enabled
    ELSE CompressedClassSpaceCounters_initialize_enabled

\* assert(_perf_counters == NULL, "Should only be initialized once")
initialize_precondition(who) ==
    IF who = "MetaspaceCounters" THEN MetaspaceCounters_initialize_precondition
    ELSE CompressedClassSpaceCounters_initialize_precondition

\* The arguments of the constructor: min_capacity, capacity, max_capacity, used.
initialize_arguments(who) ==
    IF who = "MetaspaceCounters"
    THEN <<MetaspaceAux_min_chunk_size, MetaspaceCounters_calculate_capacity,
           MetaspaceAux_reserved_in_bytes(General), MetaspaceAux_allocated_used_bytes(General)>>
    ELSE IF UseCompressedKlassPointers
    THEN <<MetaspaceAux_min_chunk_size, CompressedClassSpaceCounters_calculate_capacity,
           MetaspaceAux_reserved_in_bytes(_class_type),
           MetaspaceAux_allocated_used_bytes(_class_type)>>
    ELSE <<0, 0, 0, 0>>

InitRace ==
    /\ UsePerfData \in BOOLEAN
    /\ UseCompressedKlassPointers \in BOOLEAN
    /\ DebugBuild \in BOOLEAN
    /\ MetaspaceAux = NoBytes
    /\ perf_data = <<>>
    /\ MetaspaceCounters_perf_counters = NULL
    /\ CompressedClassSpaceCounters_perf_counters = NULL
    /\ vm = "running"
    /\ last = Step("none", "none", FALSE)
    /\ ret = NULL
    /\ perf_memory = NoExhaustion
    /\ pending_exception = FALSE
    /\ \E who \in Components :
          thread = [t \in Threads |-> [pc |-> "call", who |-> who, next |-> 1,
                                       object |-> NoObject]]
    /\ hist = <<>>

\* A thread's step leaves the rest of the state alone.
ThreadFrame ==
    UNCHANGED <<UsePerfData, UseCompressedKlassPointers, DebugBuild, MetaspaceAux, ret,
                perf_memory, pending_exception, hist>>

\* if (UsePerfData) { assert(_perf_counters == NULL, ...);
initialize_check(t) ==
    /\ Running
    /\ thread[t].pc = "call"
    /\ last' = Step("check", thread[t].who, FALSE)
    /\ IF initialize_enabled(thread[t].who)
       THEN IF assert_fires(initialize_precondition(thread[t].who))
            THEN vm' = "fatal" /\ UNCHANGED thread
            ELSE thread' = [thread EXCEPT ![t].pc = "construct"] /\ UNCHANGED vm
       ELSE thread' = [thread EXCEPT ![t].pc = "returned"] /\ UNCHANGED vm
    /\ UNCHANGED <<perf_data, MetaspaceCounters_perf_counters,
                   CompressedClassSpaceCounters_perf_counters>>
    /\ ThreadFrame

\* One create call of the constructor: the k-th of the four.
MetaspacePerfCounters_new_create(t) ==
    /\ Running
    /\ thread[t].pc = "construct"
    /\ LET k == thread[t].next
           ns == NamespaceOf(thread[t].who)
           arguments == initialize_arguments(thread[t].who)
           all == IF k = 1
                  THEN MetaspacePerfCounters_create_constant(perf_data, ns, "minCapacity",
                                                             arguments[1])
                  ELSE MetaspacePerfCounters_create_variable(
                           perf_data, ns, <<"minCapacity", "capacity", "maxCapacity", "used">>[k],
                           arguments[k])
           object == IF k = 2 THEN [thread[t].object EXCEPT !._capacity = Len(all)]
                     ELSE IF k = 3 THEN [thread[t].object EXCEPT !._max_capacity = Len(all)]
                     ELSE IF k = 4 THEN [thread[t].object EXCEPT !._used = Len(all)]
                     ELSE thread[t].object
       IN  /\ perf_data' = all
           /\ thread' = [thread EXCEPT ![t].object = object,
                                       ![t].next = k + 1,
                                       ![t].pc = IF k = 4 THEN "assign" ELSE @]
    /\ last' = Step("create", thread[t].who, FALSE)
    /\ UNCHANGED <<MetaspaceCounters_perf_counters, CompressedClassSpaceCounters_perf_counters,
                   vm>>
    /\ ThreadFrame

\* _perf_counters = new MetaspacePerfCounters(...); } and the return.  A
\* pointer that is assigned over a counter set is followed no further.
initialize_assign(t) ==
    /\ Running
    /\ thread[t].pc = "assign"
    /\ IF thread[t].who = "MetaspaceCounters"
       THEN /\ MetaspaceCounters_perf_counters' = <<thread[t].object>>
            /\ UNCHANGED CompressedClassSpaceCounters_perf_counters
       ELSE /\ CompressedClassSpaceCounters_perf_counters' = <<thread[t].object>>
            /\ UNCHANGED MetaspaceCounters_perf_counters
    /\ vm' = IF PointerOf(thread[t].who) = NULL THEN "running" ELSE "undefined"
    /\ thread' = [thread EXCEPT ![t].pc = "returned"]
    /\ last' = Step("initialize", thread[t].who, FALSE)
    /\ UNCHANGED perf_data
    /\ ThreadFrame

NextRace ==
    \/ \E t \in Threads : initialize_check(t)
    \/ \E t \in Threads : MetaspacePerfCounters_new_create(t)
    \/ \E t \in Threads : initialize_assign(t)

SpecInitRace == InitRace /\ [][NextRace]_vars

-----------------------------------------------------------------------------
(* The registry runs out of room while a counter set is constructed *)

\* The registry as a create call finds it and leaves it: the entries, the
\* count of create calls made and which of them found no room, and whether a
\* failure is pending on the calling thread.
Registry == [all |-> perf_data, mem |-> perf_memory, pending |-> pending_exception]

\* A create call, whose entries are `created` when there is room.  A call
\* that finds no room registers nothing, leaves the failure pending and
\* returns no handle.
PerfDataManager_create_traps(reg, created) ==
    LET n == reg.mem.calls + 1
        mem == [reg.mem EXCEPT !.calls = n]
    IN  IF n \in reg.mem.failing
        THEN [all |-> reg.all, mem |-> mem, pending |-> TRUE, handle |-> NoHandle]
        ELSE [all |-> created, mem |-> mem, pending |-> reg.pending, handle |-> Len(created)]

MetaspacePerfCounters_create_variable_traps(reg, ns, name, value) ==
    PerfDataManager_create_traps(reg, MetaspacePerfCounters_create_variable(reg.all, ns, name, value))

MetaspacePerfCounters_create_constant_traps(reg, ns, name, value) ==
    PerfDataManager_create_traps(reg, MetaspacePerfCounters_create_constant(reg.all, ns, name, value))

\* A constructor that takes back the entries it registered when a create call
\* has failed.
MetaspacePerfCounters_new_traps_cleanup(reg, ns, min_capacity, curr_capacity, max_capacity, used) ==
    LET r1 == MetaspacePerfCounters_create_constant_traps(reg, ns, "minCapacity", min_capacity)
        r2 == MetaspacePerfCounters_create_variable_traps(r1, ns, "capacity", curr_capacity)
        r3 == MetaspacePerfCounters_create_variable_traps(r2, ns, "maxCapacity", max_capacity)
        r4 == MetaspacePerfCounters_create_variable_traps(r3, ns, "used", used)
    IN  [all |-> IF r4.pending THEN reg.all ELSE r4.all, mem |-> r4.mem, pending |-> r4.pending,
         object |-> [_capacity |-> r2.handle, _max_capacity |-> r3.handle, _used |-> r4.handle]]

\* The constructor: four create calls in a row, each made once, none of them
\* looking at the outcome of the one before, and nothing after them.
MetaspacePerfCounters_new_traps(reg, ns, min_capacity, curr_capacity, max_capacity, used) ==
    LET r1 == MetaspacePerfCounters_create_constant_traps(reg, ns, "minCapacity", min_capacity)
        r2 == MetaspacePerfCounters_create_variable_traps(r1, ns, "capacity", curr_capacity)
        r3 == MetaspacePerfCounters_create_variable_traps(r2, ns, "maxCapacity", max_capacity)
        r4 == MetaspacePerfCounters_create_variable_traps(r3, ns, "used", used)
    IN  [all |-> r4.all, mem |-> r4.mem, pending |-> r4.pending,
         object |-> [_capacity |-> r2.handle, _max_capacity |-> r3.handle, _used |-> r4.handle]]

\* The create calls of one constructor, by their place in the count of calls.
ConstructorCalls == { perf_memory.calls + k : k \in 1..4 }

\* The registry with the calls of `failing` finding no room.
RegistryFailing(failing) == [Registry EXCEPT !.mem.failing = @ \cup failing]

\* The caller of initialize is left with what the constructor left: the
\* entries, the object and the pending failure.  A caller with a pending
\* failure is followed no further.
Constructed(new) ==
    /\ perf_data' = new.all
    /\ perf_memory' = new.mem
    /\ pending_exception' = new.pending

MetaspaceCounters_initialize_performance_counters_traps ==
    /\ Running
    /\ last' = Step("initialize", "MetaspaceCounters", FALSE)
    /\ IF MetaspaceCounters_initialize_enabled
       THEN IF assert_fires(MetaspaceCounters_initialize_precondition)
            THEN /\ vm' = "fatal"
                 /\ UNCHANGED <<perf_data, perf_memory, pending_exception,
                                MetaspaceCounters_perf_counters>>
            ELSE \E failing \in SUBSET ConstructorCalls :
                 LET min_capacity == MetaspaceAux_min_chunk_size
                     capacity == MetaspaceCounters_calculate_capacity
                     max_capacity == MetaspaceAux_reserved_in_bytes(General)
                     used == MetaspaceAux_allocated_used_bytes(General)
                     new == MetaspacePerfCounters_new_traps(RegistryFailing(failing), "metaspace",
                                                            min_capacity, capacity, max_capacity,
                                                            used)
                 IN  /\ Constructed(new)
                     /\ MetaspaceCounters_perf_counters' = <<new.object>>
                     /\ vm' = IF new.pending THEN "exception"
                              ELSE IF MetaspaceCounters_perf_counters = NULL
                                   THEN "running" ELSE "undefined"
       ELSE UNCHANGED <<perf_data, perf_memory, pending_exception,
                        MetaspaceCounters_perf_counters, vm>>
    /\ UNCHANGED <<thread, hist>>
    /\ UNCHANGED <<UsePerfData, UseCompressedKlassPointers, DebugBuild, MetaspaceAux,
                   CompressedClassSpaceCounters_perf_counters, ret>>

CompressedClassSpaceCounters_new_counters_traps(reg) ==
    LET ns == "compressedclassspace"
    IN  IF UseCompressedKlassPointers
        THEN LET min_capacity == MetaspaceAux_min_chunk_size
                 capacity == CompressedClassSpaceCounters_calculate_capacity
                 max_capacity == MetaspaceAux_reserved_in_bytes(_class_type)
                 used == MetaspaceAux_allocated_used_bytes(_class_type)
             IN  MetaspacePerfCounters_new_traps(reg, ns, min_capacity, capacity,
                                                 max_capacity, used)
        ELSE MetaspacePerfCounters_new_traps(reg, ns, 0, 0, 0, 0)

CompressedClassSpaceCounters_initialize_performance_counters_traps ==
    /\ Running
    /\ last' = Step("initialize", "CompressedClassSpaceCounters", FALSE)
    /\ IF CompressedClassSpaceCounters_initialize_enabled
       THEN IF assert_fires(CompressedClassSpaceCounters_initialize_precondition)
            THEN /\ vm' = "fatal"
                 /\ UNCHANGED <<perf_data, perf_memory, pending_exception,
                                CompressedClassSpaceCounters_perf_counters>>
            ELSE \E failing \in SUBSET ConstructorCalls :
                 LET new == CompressedClassSpaceCounters_new_counters_traps(RegistryFailing(failing))
                 IN  /\ Constructed(new)
                     /\ CompressedClassSpaceCounters_perf_counters' = <<new.object>>
                     /\ vm' = IF new.pending THEN "exception"
                              ELSE IF CompressedClassSpaceCounters_perf_counters = NULL
                                   THEN "running" ELSE "undefined"
       ELSE UNCHANGED <<perf_data, perf_memory, pending_exception,
                        CompressedClassSpaceCounters_perf_counters, vm>>
    /\ UNCHANGED <<thread, hist>>
    /\ UNCHANGED <<UsePerfData, UseCompressedKlassPointers, DebugBuild, MetaspaceAux,
                   MetaspaceCounters_perf_counters, ret>>

NextExhaustion ==
    \/ MetaspaceCounters_initialize_performance_counters_traps
    \/ CompressedClassSpaceCounters_initialize_performance_counters_traps
    \/ AllocatorChange

SpecExhaustion == Init /\ [][NextExhaustion]_vars

-----------------------------------------------------------------------------
(* What a reader of the registry sees *)

\* The values registered under a name: one per entry of that name.
Read(name) == { perf_data[i].value : i \in { j \in DOMAIN perf_data : perf_data[j].name = name } }

\* The entries registered under a name.
Entries(name) == { i \in DOMAIN perf_data : perf_data[i].name = name }

Published(ns, min_capacity, capacity, max_capacity, used) ==
    /\ Read("sun.gc." \o ns \o ".minCapacity") = {min_capacity}
    /\ Read("sun.gc." \o ns \o ".capacity") = {capacity}
    /\ Read("sun.gc." \o ns \o ".maxCapacity") = {max_capacity}
    /\ Read("sun.gc." \o ns \o ".used") = {used}

PublishedVariables(ns, capacity, max_capacity, used) ==
    /\ Read("sun.gc." \o ns \o ".capacity") = {capacity}
    /\ Read("sun.gc." \o ns \o ".maxCapacity") = {max_capacity}
    /\ Read("sun.gc." \o ns \o ".used") = {used}

\* The three-term capacity sum of a region, from the allocator's state.
CapacitySum(r) ==
    MetaspaceAux.allocated_capacity_bytes[r] + MetaspaceAux.free_bytes[r]
    + MetaspaceAux.free_chunks_total_in_bytes[r]

Did(op, who) == last.op = op /\ last.who = who

-----------------------------------------------------------------------------
(* C1 *)

\* Right after an update call (the allocator has not changed since) on a
\* running VM with performance data enabled, the component's three variable
\* counters are the allocator's values, whatever their order.
C1_AfterUpdate ==
    /\ (UsePerfData /\ Running /\ Did("update", "MetaspaceCounters"))
         => PublishedVariables("metaspace", CapacitySum(General),
                               MetaspaceAux.reserved_in_bytes[General],
                               MetaspaceAux.allocated_used_bytes[General])
    /\ (UsePerfData /\ UseCompressedKlassPointers /\ Running
        /\ Did("update", "CompressedClassSpaceCounters"))
         => PublishedVariables("compressedclassspace", CapacitySum(_class_type),
                               MetaspaceAux.reserved_in_bytes[_class_type],
                               MetaspaceAux.allocated_used_bytes[_class_type])

\* A change of the allocator's state leaves the registry as the most recent
\* call left it.
C1_AllocatorFrame == (MetaspaceAux' # MetaspaceAux) => (perf_data' = perf_data)

\* C1: with performance data enabled (and, for the compressed-class component,
\* compressed class pointers in use), after any sequence of allocator changes
\* and update calls that follows a successful initialize, used, capacity and
\* maxCapacity of the component are the allocator's allocated_used_bytes,
\* three-term capacity sum and reserved_in_bytes as they were at the most
\* recent update call, written verbatim, with no validation and no clamping.
C1_UpdatePublishesVerbatim == []C1_AfterUpdate /\ [][C1_AllocatorFrame]_vars

\* An update has published used = 1 above capacity = 0 and maxCapacity = 0.
C1_Witness ==
    /\ UsePerfData /\ Running /\ Did("update", "MetaspaceCounters")
    /\ MetaspaceAux.allocated_used_bytes[General] = 1
    /\ PublishedVariables("metaspace", 0, 0, 1)

-----------------------------------------------------------------------------
(* C2 *)

\* C2: with performance data enabled, right after initialize_performance_counters()
\* the registry shows, under the component's namespace, used, capacity,
\* maxCapacity and minCapacity equal to the allocator's allocated_used_bytes,
\* three-term capacity sum, reserved_in_bytes and min_chunk_size at the time
\* of the call (compressed-class component: with compressed class pointers in
\* use, from the queries of the class region).
C2_InitializePublishes ==
    /\ (UsePerfData /\ Running /\ Did("initialize", "MetaspaceCounters"))
         => Published("metaspace", MetaspaceAux.min_chunk_size, CapacitySum(General),
                      MetaspaceAux.reserved_in_bytes[General],
                      MetaspaceAux.allocated_used_bytes[General])
    /\ (UsePerfData /\ UseCompressedKlassPointers /\ Running
        /\ Did("initialize", "CompressedClassSpaceCounters"))
         => Published("compressedclassspace", MetaspaceAux.min_chunk_size,
                      CapacitySum(_class_type),
                      MetaspaceAux.reserved_in_bytes[_class_type],
                      MetaspaceAux.allocated_used_bytes[_class_type])

\* The compressed-class component was initialized while the class region
\* reserved one byte: maxCapacity 1 is in the registry.
C2_Witness ==
    /\ UsePerfData /\ UseCompressedKlassPointers /\ Running
    /\ Did("initialize", "CompressedClassSpaceCounters")
    /\ MetaspaceAux.reserved_in_bytes[_class_type] = 1
    /\ Published("compressedclassspace", 0, 0, 1, 0)

-----------------------------------------------------------------------------
(* C3 *)

\* C3 as claimed, read in its favour (a debug build, performance data
\* enabled): an update call on a component that was never initialized is
\* detected, the assertion fires or the VM is stopped by a fatal signal, for
\* the general and for the compressed-class component.
C3_UpdateBeforeInitializeDetected ==
    (DebugBuild /\ UsePerfData /\ last.op = "update" /\ last.who \in Components
     /\ PointerOf(last.who) = NULL)
      => vm \in {"fatal", "crashed"}

\* C3 as amended: in a debug build, with performance data enabled and, for
\* the compressed-class component, compressed class pointers in use, an update
\* call on a component that was never initialized fires the assertion and
\* writes nothing to the registry.
C3_UpdateBeforeInitializeDetectedInDebug ==
    (DebugBuild /\ UsePerfData /\ last.op = "update" /\ last.who \in Components
     /\ PointerOf(last.who) = NULL
     /\ (last.who = "CompressedClassSpaceCounters" => UseCompressedKlassPointers))
      => /\ vm = "fatal"
         /\ \A i \in DOMAIN perf_data :
               perf_data[i].name \notin
                  { "sun.gc." \o (IF last.who = "MetaspaceCounters" THEN "metaspace"
                                  ELSE "compressedclassspace") \o "." \o m :
                    m \in {"minCapacity", "capacity", "maxCapacity", "used"} }

\* The assertion of the compressed-class update has fired, while the general
\* component is initialized.
C3_Witness ==
    /\ DebugBuild /\ UsePerfData /\ UseCompressedKlassPointers
    /\ Did("update", "CompressedClassSpaceCounters")
    /\ CompressedClassSpaceCounters_perf_counters = NULL
    /\ MetaspaceCounters_perf_counters # NULL
    /\ vm = "fatal"

-----------------------------------------------------------------------------
(* C4 *)

\* C4: with performance data enabled and compressed class pointers disabled,
\* initialize_performance_counters() of the compressed-class component creates
\* a counter set whose four values are 0, and they stay 0 through every later
\* update call, whatever the allocator reports.
C4_DisabledClassSpaceStaysZero ==
    (UsePerfData /\ ~UseCompressedKlassPointers)
      => /\ (Running /\ Did("initialize", "CompressedClassSpaceCounters"))
               => CompressedClassSpaceCounters_perf_counters # NULL
         /\ CompressedClassSpaceCounters_perf_counters # NULL
               => Published("compressedclassspace", 0, 0, 0, 0)

\* An update call was made while the class region has one byte in use, and
\* the registry still shows zeros.
C4_Witness ==
    /\ UsePerfData /\ ~UseCompressedKlassPointers /\ Running
    /\ Did("update", "CompressedClassSpaceCounters")
    /\ MetaspaceAux.allocated_used_bytes[_class_type] = 1
    /\ Published("compressedclassspace", 0, 0, 0, 0)

-----------------------------------------------------------------------------
(* C5 *)

\* C5: with the performance-data flag false, whatever calls were made on
\* either component and in whatever order, the registry has no entry, both
\* counter-set pointers are NULL and no assertion has fired.
C5_DisabledDoesNothing ==
    ~UsePerfData
      => /\ perf_data = <<>>
         /\ MetaspaceCounters_perf_counters = NULL
         /\ CompressedClassSpaceCounters_perf_counters = NULL
         /\ vm = "running"

\* A debug build with the flag false has just made an update call, with no
\* initialize before it.
C5_Witness ==
    /\ ~UsePerfData /\ DebugBuild /\ UseCompressedKlassPointers
    /\ Did("update", "MetaspaceCounters")
    /\ MetaspaceCounters_perf_counters = NULL
    /\ vm = "running"

-----------------------------------------------------------------------------
(* C6 *)

Namespaces == {"metaspace", "compressedclassspace"}

Metrics == {"minCapacity", "capacity", "maxCapacity", "used"}

\* The number of counter sets registered under a namespace.
CounterSets(ns) == Cardinality(Entries("sun.gc." \o ns \o ".minCapacity"))

\* C6 as claimed: with performance data enabled a component creates at most
\* one counter set, over any sequence of calls.
C6_AtMostOneCounterSet ==
    UsePerfData => \A ns \in Namespaces : CounterSets(ns) <= 1

C6_OneSetInDebug ==
    (DebugBuild /\ UsePerfData)
      => /\ \A ns \in Namespaces, m \in Metrics :
               Cardinality(Entries("sun.gc." \o ns \o "." \o m)) <= 1
         /\ (vm = "fatal" /\ last.op = "initialize")
               => /\ PointerOf(last.who) # NULL
                  /\ CounterSets(IF last.who = "MetaspaceCounters" THEN "metaspace"
                                 ELSE "compressedclassspace") = 1

C6_PointerKept ==
    /\ MetaspaceCounters_perf_counters # NULL
         => /\ MetaspaceCounters_perf_counters' # NULL
            /\ DebugBuild => UNCHANGED MetaspaceCounters_perf_counters
    /\ CompressedClassSpaceCounters_perf_counters # NULL
         => /\ CompressedClassSpaceCounters_perf_counters' # NULL
            /\ DebugBuild => UNCHANGED CompressedClassSpaceCounters_perf_counters

\* C6 as amended: in a debug build, with performance data enabled, each
\* component creates at most one counter set: a second initialize is caught by
\* the assertion, registers nothing and leaves the pointer as it was; and in
\* every build no operation resets a counter-set pointer to NULL.
C6_AtMostOneCounterSetInDebug == []C6_OneSetInDebug /\ [][C6_PointerKept]_vars

\* The assertion of a second initialize of the general component has fired;
\* the registry holds the four entries of the first.
C6_Witness ==
    /\ DebugBuild /\ UsePerfData /\ vm = "fatal"
    /\ Did("initialize", "MetaspaceCounters")
    /\ MetaspaceCounters_perf_counters # NULL
    /\ Len(perf_data) = 4

-----------------------------------------------------------------------------
(* C7 *)

MinCapacityNames == { "sun.gc." \o ns \o ".minCapacity" : ns \in Namespaces }

C7_MinCapacityKept ==
    \A i \in DOMAIN perf_data :
       perf_data[i].name \in MinCapacityNames
         => i \in DOMAIN perf_data' /\ perf_data'[i] = perf_data[i]

\* C7: a registered minCapacity never changes: no update call and no change
\* of the allocator's state, min_chunk_size included, touches the entry that
\* initialize_performance_counters() registered.
C7_MinCapacityImmutable == [][C7_MinCapacityKept]_vars

\* The general component was updated after min_chunk_size went from 1 to 0:
\* the registry still shows minCapacity 1.
C7_Witness ==
    /\ UsePerfData /\ Running /\ Did("update", "MetaspaceCounters")
    /\ MetaspaceAux.min_chunk_size = 0
    /\ Read("sun.gc.metaspace.minCapacity") = {1}

-----------------------------------------------------------------------------
(* C8 *)

C8_ReturnsTheSum ==
    ret # NULL
      => /\ ret[1].who = "MetaspaceCounters"
              => ret[1].value = MetaspaceAux.allocated_capacity_bytes[General]
                                + (MetaspaceAux.free_bytes[General]
                                   + MetaspaceAux.free_chunks_total_in_bytes[General])
         /\ ret[1].who = "CompressedClassSpaceCounters"
              => ret[1].value = MetaspaceAux.allocated_capacity_bytes[_class_type]
                                + (MetaspaceAux.free_bytes[_class_type]
                                   + MetaspaceAux.free_chunks_total_in_bytes[_class_type])

C8_ChangesNoState ==
    UNCHANGED <<MetaspaceAux, perf_data, MetaspaceCounters_perf_counters,
                CompressedClassSpaceCounters_perf_counters, vm,
                UsePerfData, UseCompressedKlassPointers>>

\* C8: calculate_capacity() of either component returns allocated_capacity_bytes
\* + free_bytes + free_chunks_total_in_bytes of its own region (the general
\* region for MetaspaceCounters, the class region for
\* CompressedClassSpaceCounters) in the allocator state it is called in, for
\* every allocator state, and changes no state.
C8_CalculateCapacityIsTheSum == []C8_ReturnsTheSum /\ [][C8_ChangesNoState]_vars

\* calculate_capacity() of the compressed-class component has returned 3, the
\* sum of three non-zero terms, while the sum of the general region is 0.
C8_Witness ==
    /\ ret # NULL
    /\ ret[1].who = "CompressedClassSpaceCounters"
    /\ ret[1].value = 3
    /\ MetaspaceAux.allocated_capacity_bytes[_class_type] = 1
    /\ MetaspaceAux.free_bytes[_class_type] = 1
    /\ MetaspaceAux.free_chunks_total_in_bytes[_class_type] = 1
    /\ CapacitySum(General) = 0

-----------------------------------------------------------------------------
(* C9 *)

C9_SecondUpdateChangesNothing ==
    (last.op = "update" /\ last'.op = "update" /\ last'.who = last.who)
      => /\ MetaspaceAux' = MetaspaceAux
         /\ perf_data' = perf_data

\* C9: an update call that follows an update call of the same component, with
\* no change of the allocator's state or of the flags between them, leaves the
\* whole registry as the first call left it.
C9_UpdateIdempotent == [][C9_SecondUpdateChangesNothing]_vars

\* The compressed-class component has been updated twice in a row while its
\* region has one free byte: capacity 1 is in the registry.
C9_Witness ==
    /\ UsePerfData /\ UseCompressedKlassPointers /\ Running
    /\ Did("update", "CompressedClassSpaceCounters") /\ last.again
    /\ MetaspaceAux.free_bytes[_class_type] = 1
    /\ PublishedVariables("compressedclassspace", 1, 0, 0)

-----------------------------------------------------------------------------
(* C10 *)

\* The names registered under a namespace.
NamesUnder(ns) ==
    { perf_data[i].name : i \in { j \in DOMAIN perf_data :
         perf_data[j].name \in { "sun.gc." \o ns \o "." \o m : m \in Metrics } } }

\* C10: with performance data enabled, after initialize_performance_counters()
\* of the compressed-class component the registry holds the four names
\* compressedclassspace.minCapacity, .capacity, .maxCapacity and .used, each
\* once, with compressed class pointers enabled and with them disabled: the
\* flag decides the values and never the names.
C10_SameNamesWithEitherFlag ==
    (UsePerfData /\ Running /\ CompressedClassSpaceCounters_perf_counters # NULL)
      => /\ NamesUnder("compressedclassspace")
              = { "sun.gc.compressedclassspace.minCapacity",
                  "sun.gc.compressedclassspace.capacity",
                  "sun.gc.compressedclassspace.maxCapacity",
                  "sun.gc.compressedclassspace.used" }
         /\ \A m \in Metrics :
               Cardinality(Entries("sun.gc.compressedclassspace." \o m)) = 1
         /\ ~UseCompressedKlassPointers => Published("compressedclassspace", 0, 0, 0, 0)

\* With compressed class pointers disabled the component has just been
\* initialized, while the class region reserves one byte: the four names are
\* registered.
C10_Witness ==
    /\ UsePerfData /\ ~UseCompressedKlassPointers /\ Running
    /\ Did("initialize", "CompressedClassSpaceCounters")
    /\ MetaspaceAux.reserved_in_bytes[_class_type] = 1
    /\ Cardinality(NamesUnder("compressedclassspace")) = 4

-----------------------------------------------------------------------------
(* C11 *)

\* The create calls of the constructor that has just run, first to last.
C11_Calls(before) == { before.calls + k : k \in 1..4 }

C11_Failed(before, after) == C11_Calls(before) \cap after.failing

\* The names the constructor registers, by the place of their create call.
C11_NameOfCall(ns, k) ==
    "sun.gc." \o ns \o "." \o <<"minCapacity", "capacity", "maxCapacity", "used">>[k]

\* The names of the calls that found room, in the order of the calls.
C11_Registered(ns, before, after) ==
    LET F[k \in 0..4] ==
          IF k = 0 THEN <<>>
          ELSE IF before.calls + k \in after.failing THEN F[k - 1]
               ELSE Append(F[k - 1], C11_NameOfCall(ns, k))
    IN  F[4]

C11_AfterFailedConstruction ==
    (/\ last'.op = "initialize"
     /\ perf_memory'.calls # perf_memory.calls
     /\ C11_Failed(perf_memory, perf_memory') # {})
    => LET ns == NamespaceOf(last'.who)
           registered == C11_Registered(ns, perf_memory, perf_memory')
       IN  \* the failure reaches the caller
           /\ pending_exception'
           \* each create call was made once
           /\ perf_memory'.calls = perf_memory.calls + 4
           \* what was there stays, and every call that found room left its entry
           /\ Len(perf_data') = Len(perf_data) + Len(registered)
           /\ SubSeq(perf_data', 1, Len(perf_data)) = perf_data
           /\ \A k \in 1..Len(registered) :
                 perf_data'[Len(perf_data) + k].name = registered[k]

-----------------------------------------------------------------------------
(* C12 *)

NamesOf(ns) == { "sun.gc." \o ns \o "." \o m : m \in Metrics }

VariableNamesOf(ns) == { "sun.gc." \o ns \o "." \o m : m \in {"capacity", "maxCapacity", "used"} }

\* The entries of a registry under a namespace.
EntriesOf(all, ns) == { i \in DOMAIN all : all[i].name \in NamesOf(ns) }

\* A step leaves the entries under a namespace as they are, and adds none.
NamespaceKept(ns) ==
    /\ EntriesOf(perf_data', ns) = EntriesOf(perf_data, ns)
    /\ \A i \in EntriesOf(perf_data, ns) : perf_data'[i] = perf_data[i]

C12_Frame ==
    /\ (last'.op \in {"initialize", "update"} /\ last'.who = "MetaspaceCounters")
         => /\ UNCHANGED CompressedClassSpaceCounters_perf_counters
            /\ NamespaceKept("compressedclassspace")
    /\ (last'.op \in {"initialize", "update"} /\ last'.who = "CompressedClassSpaceCounters")
         => /\ UNCHANGED MetaspaceCounters_perf_counters
            /\ NamespaceKept("metaspace")
    /\ last'.op = "update"
         => /\ DOMAIN perf_data' = DOMAIN perf_data
            /\ \A i \in DOMAIN perf_data :
                  /\ perf_data'[i] = [perf_data[i] EXCEPT !.value = perf_data'[i].value]
                  /\ perf_data'[i] # perf_data[i]
                       => perf_data[i].name \in VariableNamesOf(NamespaceOf(last'.who))

\* C12: a call on MetaspaceCounters leaves the compressed-class pointer and
\* every compressedclassspace.* entry as they are, a call on
\* CompressedClassSpaceCounters leaves the general pointer and every
\* metaspace.* entry as they are, and an update call creates and removes no
\* entry and changes only the values of capacity, maxCapacity and used of its
\* own namespace.
C12_ComponentsIndependent == [][C12_Frame]_vars

\* The compressed-class component has been updated to used = 1 while the
\* registry keeps maxCapacity = 1 of the general component, which the
\* allocator no longer reports.
C12_Witness ==
    /\ UsePerfData /\ UseCompressedKlassPointers /\ Running
    /\ Did("update", "CompressedClassSpaceCounters")
    /\ MetaspaceCounters_perf_counters # NULL
    /\ MetaspaceAux.reserved_in_bytes[General] = 0
    /\ PublishedVariables("metaspace", 0, 1, 0)
    /\ PublishedVariables("compressedclassspace", 0, 0, 1)

-----------------------------------------------------------------------------
(* C13 *)

\* A read takes what the allocator reports at that moment, and nothing else.
C13_ReadsTheMoment ==
    /\ (thread.pc = "calculate_capacity" /\ thread' # thread)
         => \E t \in thread.unread :
               /\ thread'.unread = thread.unread \ {t}
               /\ thread'.read = [thread.read EXCEPT ![t] = MetaspaceAux[t][General]]
    /\ (thread.pc = "max_capacity" /\ thread' # thread)
         => thread'.max_capacity = MetaspaceAux.reserved_in_bytes[General]
    /\ (thread.pc = "used" /\ thread' # thread)
         => thread'.used = MetaspaceAux.allocated_used_bytes[General]

\* What the call has published is what its reads took.
C13_PublishesTheReads ==
    (thread.pc = "returned" /\ Did("update", "MetaspaceCounters"))
    => PublishedVariables("metaspace",
                          thread.read["allocated_capacity_bytes"] + thread.read["free_bytes"]
                          + thread.read["free_chunks_total_in_bytes"],
                          thread.max_capacity, thread.used)

\* C13: one update_performance_counters() call reads the three capacity
\* terms, reserved_in_bytes and allocated_used_bytes one after the other, each
\* as the allocator reports it at that moment, and publishes the sum of the
\* three terms as read, and reserved and used as read.  Nothing holds the
\* allocator between the reads, so the published capacity can be the
\* three-term sum of no allocator state there was during the call, and
\* capacity, maxCapacity and used can come from different allocator states.
C13_NoAtomicSnapshot == []C13_PublishesTheReads /\ [][C13_ReadsTheMoment]_vars

\* The call has published a capacity that is the three-term sum of no
\* allocator state there was during the call, and a used that the allocator
\* did not report when the published maxCapacity was read.
C13_Witness ==
    /\ thread.pc = "returned" /\ Did("update", "MetaspaceCounters")
    /\ \E c \in Read("sun.gc.metaspace.capacity") : c \notin hist.sums
    /\ \E u \in Read("sun.gc.metaspace.used") : u # hist.used_then

-----------------------------------------------------------------------------
(* C14 *)

\* What the registry holds after the writes made so far: the new values in the
\* order capacity, maxCapacity, used, and the previous values after them.
C14_WriteByWrite ==
    /\ thread.pc = "update"
         => ReaderSnapshot(perf_data, "metaspace") =
              <<IF thread.next > 1 THEN thread.capacity ELSE hist.before[1],
                IF thread.next > 2 THEN thread.max_capacity ELSE hist.before[2],
                hist.before[3]>>
    /\ (thread.pc = "returned" /\ Did("update", "MetaspaceCounters"))
         => ReaderSnapshot(perf_data, "metaspace") =
              <<thread.capacity, thread.max_capacity, thread.used>>

\* A reader finds what the registry holds at that moment.
C14_ReaderSeesTheWrites ==
    hist'.reader # hist.reader /\ hist'.reader # NULL
    => hist'.reader = ReaderSnapshot(perf_data, "metaspace")

\* C14: MetaspacePerfCounters::update writes capacity, then maxCapacity, then
\* used, each write in the registry as soon as it is made: after the first
\* write a reader finds the new capacity with the previous maxCapacity and
\* used, after the second the new capacity and maxCapacity with the previous
\* used, and once the update has returned all three are the new values.
C14_WritesInOrder == []C14_WriteByWrite /\ [][C14_ReaderSeesTheWrites]_vars

\* Between the writes, a reader has found the new capacity together with the
\* previous used, where both differ from the value they replace or are
\* replaced by.
C14_Witness ==
    /\ thread.pc = "update" /\ thread.next > 1
    /\ hist.reader # NULL
    /\ hist.reader[1] = thread.capacity /\ thread.capacity # hist.before[1]
    /\ hist.reader[3] = hist.before[3] /\ thread.used # hist.before[3]

-----------------------------------------------------------------------------
(* C15 *)

\* The threads that have constructed a counter set and returned.
C15_Initialized == { t \in Threads : thread[t].pc = "returned" /\ thread[t].object # NoObject }

\* The four entries a thread has registered are in the registry, under the
\* names of the component's namespace.
C15_SetRegistered(t) ==
    LET ns == NamespaceOf(thread[t].who)
        object == thread[t].object
    IN  /\ {object._capacity, object._max_capacity, object._used} \subseteq DOMAIN perf_data
        /\ perf_data[object._capacity].name = "sun.gc." \o ns \o ".capacity"
        /\ perf_data[object._max_capacity].name = "sun.gc." \o ns \o ".maxCapacity"
        /\ perf_data[object._used].name = "sun.gc." \o ns \o ".used"

\* Every thread that returned from the constructor has its own counter set in
\* the registry, and the pointer holds the set of one of them only.
C15_OneSetPerThread ==
    \A who \in Components :
       LET done == { t \in C15_Initialized : thread[t].who = who }
       IN  done # {}
           => /\ CounterSets(NamespaceOf(who)) >= Cardinality(done)
              /\ \A t \in done : C15_SetRegistered(t)
              /\ \A t, u \in done : t # u => thread[t].object # thread[u].object
              /\ \E t \in done : PointerOf(who) = <<thread[t].object>>

\* In a debug build a thread gets past the check only when it finds the
\* pointer NULL; the check takes nothing that keeps another thread from
\* finding the same; and the assignment puts the thread's own set in the
\* pointer, whatever the pointer held.
C15_CheckThenAct ==
    \A t \in Threads :
       /\ (thread[t].pc = "call" /\ thread'[t].pc = "construct" /\ DebugBuild)
            => /\ PointerOf(thread[t].who) = NULL
               /\ PointerOf(thread[t].who)' = NULL
       /\ (thread[t].pc = "assign" /\ thread'[t].pc = "returned")
            => PointerOf(thread[t].who)' = <<thread[t].object>>

\* C15: the check that a component is not yet initialized and the creation
\* and assignment of its counter set are separate steps with nothing held
\* between them.  Threads that call initialize_performance_counters() of one
\* component at once with performance data on can each find the pointer NULL;
\* each then registers its own counter set under the same namespace, and the
\* pointer ends up holding one of the sets while the others stay registered
\* with nothing pointing to them.
C15_InitializeNotAtomic == []C15_OneSetPerThread /\ [][C15_CheckThenAct]_vars

\* In a debug build two threads have passed the check and returned: there are
\* two counter sets under the namespace and the pointer holds only one.
C15_Witness ==
    /\ DebugBuild /\ UsePerfData
    /\ \E t, u \in Threads :
          /\ t # u /\ {t, u} \subseteq C15_Initialized
          /\ thread[t].who = "MetaspaceCounters"
          /\ CounterSets("metaspace") >= 2
          /\ MetaspaceCounters_perf_counters = <<thread[t].object>>
          /\ MetaspaceCounters_perf_counters # <<thread[u].object>>
          /\ C15_SetRegistered(u)

-----------------------------------------------------------------------------
(* C16 *)

\* The counters published under a namespace run used <= capacity <= maxCapacity.
C16_PublishedOrdered(ns) ==
    \A u \in Read("sun.gc." \o ns \o ".used"),
       c \in Read("sun.gc." \o ns \o ".capacity"),
       m \in Read("sun.gc." \o ns \o ".maxCapacity") :
          0 <= u /\ u <= c /\ c <= m

\* C16: with calls that run as one step and an allocator whose every state has
\* allocated_used_bytes <= allocated_capacity_bytes + free_bytes +
\* free_chunks_total_in_bytes <= reserved_in_bytes in both regions, the
\* counters a component has published satisfy 0 <= used <= capacity <=
\* maxCapacity after each of its initialize and update calls that returned;
\* so do the zeros of the compressed-class component with compressed class
\* pointers off.
C16_PublishedCountersOrdered ==
    \A who \in Components :
       (/\ last.op \in {"initialize", "update"} /\ last.who = who
        /\ Running /\ UsePerfData /\ PointerOf(who) # NULL)
       => /\ CounterSets(NamespaceOf(who)) = 1
          /\ C16_PublishedOrdered(NamespaceOf(who))
          /\ (who = "CompressedClassSpaceCounters" /\ ~UseCompressedKlassPointers)
               => Published("compressedclassspace", 0, 0, 0, 0)

\* An update of the general component has published used = capacity =
\* maxCapacity = 1 while the compressed-class component, with compressed class
\* pointers off, holds its zeros.
C16_Witness ==
    /\ Did("update", "MetaspaceCounters") /\ Running
    /\ ~UseCompressedKlassPointers
    /\ CompressedClassSpaceCounters_perf_counters # NULL
    /\ Published("compressedclassspace", 0, 0, 0, 0)
    /\ PublishedVariables("metaspace", 1, 1, 1)

=============================================================================
